---- MODULE Spec2Model ----
(***************************************************************************)
(* Model of klbase_app/file_process: the PDF page partitioning functions   *)
(* (pdf_split_by_page, pdf_split_by_part, pdf_drop_pages, pdf_merge), the  *)
(* office-to-PDF conversion (convert_to_pdf, convert_to_pdf_async) and the *)
(* guarded recursive deletion (rm_files, _is_safe_to_delete).              *)
(*                                                                         *)
(* A document is the sequence of its page handles; a page handle is the    *)
(* 0-based position the page has in the source document.  Every function   *)
(* call is a small program: pc is the position in the function body,       *)
(* outcome is "running", "returned" or the name of the exception that      *)
(* left the function.                                                      *)
(***************************************************************************)
EXTENDS Integers, Sequences, FiniteSets

VARIABLES
    fn,                \* the function being called
    pc,                \* position in its body
    outcome,           \* "running", "returned", or the exception raised
    result,            \* the value built and returned
    it,                \* the items a running for-loop still has to visit
    pdf,               \* PdfReader(source).pages: the source page handles
    pages,             \* pdf_split_by_page: pages per output
    parts,             \* pdf_split_by_part: number of outputs
    mode,              \* 'begin'/'end' or 'front'/'back'
    pdf_page_len,
    complete_parts,
    remaining_pages,
    range_list,
    avg_page_num,
    remaining_page_num,
    page_num_per_pdf,
    start_idx,
    drop_pages,        \* pdf_drop_pages: list of (page_begin, page_end)
    drop_pages_list,   \* the set of 1-based positions to drop
    file_suffix,       \* convert_to_pdf*: suffix of source_path
    clean_source,
    source_file,       \* "present" / "absent": the file at source_path
    tmp_dir,           \* "none" / "exists" / "removed": out_dir/<uuid>
    produced,          \* number of files the converter wrote into out_dir/<uuid>
    process,           \* "none" / "running" / "exited" / "terminated"
    source_paths,      \* rm_files: the list of paths given
    fs,                \* the set of paths that exist in the filesystem
    success,           \* rm_files: the accumulated flag
    log                \* rm_files: per path visited, what the loop body did with it

common == <<fn, pc, outcome, result, it>>
splitv == <<pages, parts, mode, pdf_page_len, complete_parts, remaining_pages,
            range_list, avg_page_num, remaining_page_num, page_num_per_pdf,
            start_idx>>
dropv  == <<drop_pages, drop_pages_list>>
convv  == <<file_suffix, clean_source, source_file, tmp_dir, produced, process>>
rmv    == <<source_paths, fs, success, log>>
vars   == <<common, pdf, splitv, dropv, convv, rmv>>

-----------------------------------------------------------------------------
(* Bounds of the model *)

MaxPages == 10          \* longest source document of a split
MaxDivisor == 6         \* largest pages / parts argument
MaxNegDivisor == 3      \* the most negative pages / parts argument is -MaxNegDivisor
MaxDropLen == 5         \* longest source document of pdf_drop_pages
MaxRanges == 2          \* longest drop_pages list
MaxPaths == 2           \* longest source_paths list

-----------------------------------------------------------------------------
(* Python arithmetic and sequences *)

\* a // b for a >= 0 and b # 0: floor division, rounding towards minus infinity
PyFloorDiv(a, b) ==
    IF b > 0 THEN a \div b ELSE -((a + (-b) - 1) \div (-b))

\* a % b: the remainder has the sign of the divisor
PyMod(a, b) == a - b * PyFloorDiv(a, b)

\* range(start, stop)
Range(start, stop) == [start |-> start, stop |-> stop]

\* len(range(start, stop))
RangeLen(r) == IF r.stop > r.start THEN r.stop - r.start ELSE 0

\* list(range(start, stop))
RangeItems(r) == [k \in 1..RangeLen(r) |-> r.start + k - 1]

\* range(n) as the list of its items: empty when n <= 0
UpTo(n) == RangeItems(Range(0, n))

\* the document 0, 1, ..., n-1
Document(n) == [k \in 1..n |-> k - 1]

\* pdf.pages[one_range]: the pages at the indices of the range
PagesAt(doc, r) == [k \in 1..RangeLen(r) |-> doc[RangeItems(r)[k] + 1]]

\* the range can be read: every index it holds is an index of the document
InBounds(doc, r) == \A k \in 1..RangeLen(r) : RangeItems(r)[k] \in 0..(Len(doc) - 1)

\* seq[a:b]: a negative end counts from the back, and both ends are clamped to
\* the length
Clamp(x, n) == IF x < 0 THEN (IF x + n < 0 THEN 0 ELSE x + n) ELSE IF x > n THEN n ELSE x
Slice(doc, a, b) ==
    LET lo == Clamp(a, Len(doc))
        hi == Clamp(b, Len(doc))
    IN  IF hi > lo THEN [k \in 1..(hi - lo) |-> doc[lo + k]] ELSE <<>>

RECURSIVE Merge(_)
\* pdf_merge: every page of every document, document by document, page by page
Merge(source_list) ==
    IF source_list = <<>> THEN <<>>
    ELSE Head(source_list) \o Merge(Tail(source_list))

-----------------------------------------------------------------------------
(* The state before any call of a family: its variables at rest *)

SplitIdle ==
    /\ pages = 0 /\ parts = 0 /\ mode = "" /\ pdf_page_len = 0
    /\ complete_parts = 0 /\ remaining_pages = 0 /\ range_list = <<>>
    /\ avg_page_num = 0 /\ remaining_page_num = 0 /\ page_num_per_pdf = <<>>
    /\ start_idx = 0

DropIdle == drop_pages = <<>> /\ drop_pages_list = {}

ConvIdle ==
    /\ file_suffix = "" /\ clean_source = FALSE /\ source_file = "present"
    /\ tmp_dir = "none" /\ produced = 0 /\ process = "none"

RmIdle == source_paths = <<>> /\ fs = {} /\ success = TRUE /\ log = <<>>

CallStart == pc = "start" /\ outcome = "running" /\ result = <<>> /\ it = <<>>

\* the function is left by an exception
Raise(e) == outcome' = e /\ pc' = "done"

-----------------------------------------------------------------------------
(* pdf_split_by_page *)

\* range_list with the complete ranges of mode 'begin' not shifted past the
\* short first range
RangeListNoShift(m, pgs, complete, remaining) ==
    IF m = "begin" THEN
        (IF remaining # 0 THEN <<Range(0, remaining)>> ELSE <<>>)
        \o [k \in 1..Len(UpTo(complete)) |->
               Range(pgs * UpTo(complete)[k], pgs * (UpTo(complete)[k] + 1))]
    ELSE IF m = "end" THEN
        [k \in 1..Len(UpTo(complete)) |->
               Range(pgs * UpTo(complete)[k], pgs * (UpTo(complete)[k] + 1))]
        \o (IF remaining # 0
            THEN <<Range(pgs * complete, pgs * complete + remaining)>>
            ELSE <<>>)
    ELSE <<>>

\* range_list with the two modes taken for each other
RangeListModesSwapped(m, pgs, complete, remaining) ==
    IF m = "end" THEN
        (IF remaining # 0 THEN <<Range(0, remaining)>> ELSE <<>>)
        \o [k \in 1..Len(UpTo(complete)) |->
               Range(remaining + pgs * UpTo(complete)[k],
                     remaining + pgs * (UpTo(complete)[k] + 1))]
    ELSE IF m = "begin" THEN
        [k \in 1..Len(UpTo(complete)) |->
               Range(pgs * UpTo(complete)[k], pgs * (UpTo(complete)[k] + 1))]
        \o (IF remaining # 0
            THEN <<Range(pgs * complete, pgs * complete + remaining)>>
            ELSE <<>>)
    ELSE <<>>

\* range_list as lines 68-81 build it
RangeList(m, pgs, complete, remaining) ==
    IF m = "begin" THEN
        (IF remaining # 0 THEN <<Range(0, remaining)>> ELSE <<>>)
        \o [k \in 1..Len(UpTo(complete)) |->
               Range(remaining + pgs * UpTo(complete)[k],
                     remaining + pgs * (UpTo(complete)[k] + 1))]
    ELSE IF m = "end" THEN
        [k \in 1..Len(UpTo(complete)) |->
               Range(pgs * UpTo(complete)[k], pgs * (UpTo(complete)[k] + 1))]
        \o (IF remaining # 0
            THEN <<Range(pgs * complete, pgs * complete + remaining)>>
            ELSE <<>>)
    ELSE <<>>

\* lines 56-66: read the document, divide the page count by pages
PageCount ==
    /\ fn = "pdf_split_by_page" /\ pc = "start"
    /\ pdf_page_len' = Len(pdf)
    /\ IF pages = 0
       THEN /\ Raise("ZeroDivisionError")
            /\ UNCHANGED <<complete_parts, remaining_pages>>
       ELSE /\ complete_parts' = PyFloorDiv(Len(pdf), pages)
            /\ remaining_pages' = PyMod(Len(pdf), pages)
            /\ pc' = "ranges"
            /\ UNCHANGED outcome
    /\ UNCHANGED <<fn, result, it, pdf, pages, parts, mode, range_list, avg_page_num,
                   remaining_page_num, page_num_per_pdf, start_idx, dropv, convv, rmv>>

\* lines 68-81: build range_list
PageRanges ==
    /\ fn = "pdf_split_by_page" /\ pc = "ranges"
    /\ range_list' = RangeList(mode, pages, complete_parts, remaining_pages)
    /\ it' = range_list'
    /\ pc' = "write"
    /\ UNCHANGED <<fn, outcome, result, pdf, pages, parts, mode, pdf_page_len,
                   complete_parts, remaining_pages, avg_page_num, remaining_page_num,
                   page_num_per_pdf, start_idx, dropv, convv, rmv>>

\* lines 83-92: one iteration of the loop writing one output document
PageWrite ==
    /\ fn = "pdf_split_by_page" /\ pc = "write" /\ it # <<>>
    /\ IF InBounds(pdf, Head(it))
       THEN /\ result' = Append(result, PagesAt(pdf, Head(it)))
            /\ it' = Tail(it)
            /\ UNCHANGED <<pc, outcome>>
       ELSE /\ Raise("IndexError")
            /\ UNCHANGED <<result, it>>
    /\ UNCHANGED <<fn, pdf, splitv, dropv, convv, rmv>>

-----------------------------------------------------------------------------
(* pdf_split_by_part *)

\* the one-page-per-output branch taken for the empty document only
OnlyEmptyDocument(n, p) == n = 0

\* line 119: the test of the one-page-per-output branch
FewerPagesThanParts(n, p) == PyFloorDiv(n, p) = 0

\* lines 133-140: the page count of each output
PageNumPerPdf(m, n, p, avg, remaining) ==
    [k \in 1..Len(UpTo(p)) |->
        avg + (IF m = "front"
               THEN (IF UpTo(p)[k] >= (n - remaining) THEN 1 ELSE 0)
               ELSE (IF UpTo(p)[k] < remaining THEN 1 ELSE 0))]

\* lines 111-119: read the document, divide the page count by parts
PartCount ==
    /\ fn = "pdf_split_by_part" /\ pc = "start"
    /\ pdf_page_len' = Len(pdf)
    /\ IF parts = 0
       THEN /\ Raise("ZeroDivisionError")
            /\ UNCHANGED it
       ELSE IF FewerPagesThanParts(Len(pdf), parts)
       THEN /\ pc' = "one_per_page"
            /\ it' = pdf
            /\ UNCHANGED outcome
       ELSE /\ pc' = "plan"
            /\ UNCHANGED <<outcome, it>>
    /\ UNCHANGED <<fn, result, pdf, pages, parts, mode, complete_parts, remaining_pages,
                   range_list, avg_page_num, remaining_page_num, page_num_per_pdf,
                   start_idx, dropv, convv, rmv>>

\* lines 120-125: one iteration of the loop writing one page per output
PartOnePerPage ==
    /\ fn = "pdf_split_by_part" /\ pc = "one_per_page" /\ it # <<>>
    /\ result' = Append(result, <<Head(it)>>)
    /\ it' = Tail(it)
    /\ UNCHANGED <<fn, pc, outcome, pdf, splitv, dropv, convv, rmv>>

\* lines 129-142: the page count of every output
PartPlan ==
    /\ fn = "pdf_split_by_part" /\ pc = "plan"
    /\ avg_page_num' = PyFloorDiv(pdf_page_len, parts)
    /\ remaining_page_num' = PyMod(pdf_page_len, parts)
    /\ page_num_per_pdf' = PageNumPerPdf(mode, pdf_page_len, parts,
                                         avg_page_num', remaining_page_num')
    /\ start_idx' = 0
    /\ it' = page_num_per_pdf'
    /\ pc' = "write"
    /\ UNCHANGED <<fn, outcome, result, pdf, pages, parts, mode, pdf_page_len,
                   complete_parts, remaining_pages, range_list, dropv, convv, rmv>>

\* lines 144-154: one iteration of the loop writing one output document
PartWrite ==
    /\ fn = "pdf_split_by_part" /\ pc = "write" /\ it # <<>>
    /\ result' = Append(result, Slice(pdf, start_idx, start_idx + Head(it)))
    /\ start_idx' = start_idx + Head(it)
    /\ it' = Tail(it)
    /\ UNCHANGED <<fn, pc, outcome, pdf, pages, parts, mode, pdf_page_len,
                   complete_parts, remaining_pages, range_list, avg_page_num,
                   remaining_page_num, page_num_per_pdf, dropv, convv, rmv>>

\* lines 94, 127, 156: return result once the loop has visited every item
SplitReturn ==
    /\ fn \in {"pdf_split_by_page", "pdf_split_by_part"}
    /\ pc \in {"write", "one_per_page"} /\ it = <<>>
    /\ outcome' = "returned" /\ pc' = "done"
    /\ UNCHANGED <<fn, result, it, pdf, splitv, dropv, convv, rmv>>

\* a call of pdf_split_by_page or pdf_split_by_part on a document of up to
\* MaxPages pages, with a positive, zero or negative divisor
InitSplit ==
    /\ CallStart
    /\ \E n \in 0..MaxPages : pdf = Document(n)
    /\ \E d \in (-MaxNegDivisor)..MaxDivisor :
          \/ fn = "pdf_split_by_page" /\ pages = d /\ parts = 0
                /\ mode \in {"begin", "end"}
          \/ fn = "pdf_split_by_part" /\ parts = d /\ pages = 0
                /\ mode \in {"front", "back"}
    /\ pdf_page_len = 0 /\ complete_parts = 0 /\ remaining_pages = 0
    /\ range_list = <<>> /\ avg_page_num = 0 /\ remaining_page_num = 0
    /\ page_num_per_pdf = <<>> /\ start_idx = 0
    /\ DropIdle /\ ConvIdle /\ RmIdle

NextSplit ==
    \/ PageCount \/ PageRanges \/ PageWrite
    \/ PartCount \/ PartOnePerPage \/ PartPlan \/ PartWrite
    \/ SplitReturn

SpecSplit == InitSplit /\ [][NextSplit]_vars

-----------------------------------------------------------------------------
(* pdf_drop_pages *)

\* lines 181-182: the positions one (page_begin, page_end) adds to the set
RangePositions(page_begin, page_end) ==
    {RangeItems(Range(page_begin, page_end + 1))[k] :
        k \in 1..RangeLen(Range(page_begin, page_end + 1))}

RECURSIVE KeepFrom(_, _, _)
\* lines 185-187: walk the pages, numbered from idx on, and keep those whose
\* number is not in the set
KeepFrom(doc, idx, dropped) ==
    IF doc = <<>> THEN <<>>
    ELSE (IF idx \notin dropped THEN <<Head(doc)>> ELSE <<>>)
         \o KeepFrom(Tail(doc), idx + 1, dropped)

\* the walk numbering the pages from 0
KeepPagesFromZero(doc, dropped) == KeepFrom(doc, 0, dropped)

\* lines 185-187: enumerate(pdf.pages, start=1)
KeepPages(doc, dropped) == KeepFrom(doc, 1, dropped)

\* lines 168-178: read the document, start with the empty set
DropStart ==
    /\ fn = "pdf_drop_pages" /\ pc = "start"
    /\ drop_pages_list' = {}
    /\ it' = drop_pages
    /\ pc' = "collect"
    /\ UNCHANGED <<fn, outcome, result, pdf, splitv, drop_pages, convv, rmv>>

\* lines 180-182: one (page_begin, page_end) of drop_pages
DropCollect ==
    /\ fn = "pdf_drop_pages" /\ pc = "collect" /\ it # <<>>
    /\ drop_pages_list' = drop_pages_list \cup RangePositions(Head(it)[1], Head(it)[2])
    /\ it' = Tail(it)
    /\ UNCHANGED <<fn, pc, outcome, result, pdf, splitv, drop_pages, convv, rmv>>

\* lines 185-187: copy the pages that stay
DropWalk ==
    /\ fn = "pdf_drop_pages" /\ pc = "collect" /\ it = <<>>
    /\ result' = KeepPages(pdf, drop_pages_list)
    /\ pc' = "write"
    /\ UNCHANGED <<fn, outcome, it, pdf, splitv, dropv, convv, rmv>>

\* lines 189-192: serialise and return
DropReturn ==
    /\ fn = "pdf_drop_pages" /\ pc = "write"
    /\ outcome' = "returned" /\ pc' = "done"
    /\ UNCHANGED <<fn, result, it, pdf, splitv, dropv, convv, rmv>>

\* the lists of at most n pairs over the positions 0 .. top
PairLists(n, top) ==
    UNION {[1..len -> (0..top) \X (0..top)] : len \in 0..n}

\* a call of pdf_drop_pages on a document of up to MaxDropLen pages with up to
\* MaxRanges ranges, whose ends run from 0 to one past the last page
InitDrop ==
    /\ fn = "pdf_drop_pages" /\ CallStart
    /\ \E n \in 0..MaxDropLen :
          /\ pdf = Document(n)
          /\ drop_pages \in PairLists(MaxRanges, n + 1)
    /\ drop_pages_list = {}
    /\ SplitIdle /\ ConvIdle /\ RmIdle

NextDrop == DropStart \/ DropCollect \/ DropWalk \/ DropReturn

SpecDrop == InitDrop /\ [][NextDrop]_vars

-----------------------------------------------------------------------------
(* convert_to_pdf and convert_to_pdf_async *)

\* lines 207 and 272: the suffixes the conversion accepts
AcceptedSuffixes ==
    {".pdf", ".docx", ".doc", ".xls", ".xlsx", ".png", ".jpg", ".ppt", ".pptx"}

Converters == {"convert_to_pdf", "convert_to_pdf_async"}

\* lines 204-209, 268-274: the suffix check, before the try block
ConvCheckSuffix ==
    /\ fn \in Converters /\ pc = "start"
    /\ IF file_suffix \notin AcceptedSuffixes
       THEN Raise("TypeError")
       ELSE pc' = "mkdir" /\ UNCHANGED outcome
    /\ UNCHANGED <<fn, result, it, pdf, splitv, dropv, convv, rmv>>

\* lines 213-214, 277-278: out_dir becomes out_dir/<uuid> and is created;
\* creating it can fail, which leaves the try block for the handler
ConvMkdir ==
    /\ fn \in Converters /\ pc = "mkdir"
    /\ \E created \in BOOLEAN :
          IF created
          THEN /\ tmp_dir' = "exists"
               /\ pc' = IF file_suffix = ".pdf" THEN "copy"
                        ELSE IF fn = "convert_to_pdf" THEN "run" ELSE "spawn"
          ELSE /\ pc' = "except"
               /\ UNCHANGED tmp_dir
    /\ UNCHANGED <<fn, outcome, result, it, pdf, splitv, dropv, file_suffix,
                   clean_source, source_file, produced, process, rmv>>

\* lines 217-222, 282-287: a .pdf source is read and returned as it is
ConvCopyPdf ==
    /\ fn \in Converters /\ pc = "copy"
    /\ IF source_file = "present"
       THEN /\ result' = <<"source bytes">>
            /\ source_file' = IF clean_source THEN "absent" ELSE source_file
            /\ outcome' = "returned" /\ pc' = "done"
       ELSE /\ pc' = "except"
            /\ UNCHANGED <<result, source_file, outcome>>
    /\ UNCHANGED <<fn, it, pdf, splitv, dropv, file_suffix, clean_source, tmp_dir,
                   produced, process, rmv>>

\* lines 225-240: subprocess.run with check=True and a timeout, then the test
\* of stderr; the converter may or may not have written its file
ConvRun ==
    /\ fn = "convert_to_pdf" /\ pc = "run"
    /\ \E ended \in {"ok", "CalledProcessError", "TimeoutExpired", "RuntimeError"} :
          pc' = IF ended = "ok" THEN "collect" ELSE "except"
    /\ \E n \in {0, 1} : produced' = n
    /\ UNCHANGED <<fn, outcome, result, it, pdf, splitv, dropv, file_suffix,
                   clean_source, source_file, tmp_dir, process, rmv>>

\* line 302: asyncio.create_subprocess_exec
ConvSpawn ==
    /\ fn = "convert_to_pdf_async" /\ pc = "spawn"
    /\ process' = "running"
    /\ pc' = "wait"
    /\ UNCHANGED <<fn, outcome, result, it, pdf, splitv, dropv, file_suffix,
                   clean_source, source_file, tmp_dir, produced, rmv>>

\* lines 303-304: the process exits within the timeout
ConvExit ==
    /\ fn = "convert_to_pdf_async" /\ pc = "wait" /\ process = "running"
    /\ process' = "exited"
    /\ \E n \in {0, 1} : produced' = n
    /\ pc' = "collect"
    /\ UNCHANGED <<fn, outcome, result, it, pdf, splitv, dropv, file_suffix,
                   clean_source, source_file, tmp_dir, rmv>>

\* lines 305-308: the timeout expires; terminate, await the exit, raise
ConvTimeout ==
    /\ fn = "convert_to_pdf_async" /\ pc = "wait" /\ process = "running"
    /\ process' = "terminated"
    /\ pc' = "except"
    /\ UNCHANGED <<fn, outcome, result, it, pdf, splitv, dropv, file_suffix,
                   clean_source, source_file, tmp_dir, produced, rmv>>

\* lines 243-256, 312-322: read the first file of out_dir/<uuid>, clean the
\* source if asked, remove the directory and return
ConvCollect ==
    /\ fn \in Converters /\ pc = "collect"
    /\ IF produced = 0
       THEN /\ pc' = "except"
            /\ UNCHANGED <<result, source_file, tmp_dir, outcome>>
       ELSE /\ result' = <<"converted bytes">>
            /\ source_file' = IF clean_source THEN "absent" ELSE source_file
            /\ tmp_dir' = "removed"
            /\ outcome' = "returned" /\ pc' = "done"
    /\ UNCHANGED <<fn, it, pdf, splitv, dropv, file_suffix, clean_source, produced,
                   process, rmv>>

\* lines 252-254, 323-325: the handler removes out_dir/<uuid> and raises;
\* shutil.rmtree itself raises when the directory was never created
ConvExcept ==
    /\ fn \in Converters /\ pc = "except"
    /\ IF tmp_dir = "exists"
       THEN tmp_dir' = "removed" /\ Raise("Exception")
       ELSE UNCHANGED tmp_dir /\ Raise("FileNotFoundError")
    /\ UNCHANGED <<fn, result, it, pdf, splitv, dropv, file_suffix, clean_source,
                   source_file, produced, process, rmv>>

\* a call of either converter on a source with an accepted or a rejected
\* suffix, the source file present or missing
InitConv ==
    /\ fn \in Converters /\ CallStart
    /\ pdf = <<>>
    /\ file_suffix \in AcceptedSuffixes \cup {".txt", ""}
    /\ clean_source \in BOOLEAN
    /\ source_file \in {"present", "absent"}
    /\ tmp_dir = "none" /\ produced = 0 /\ process = "none"
    /\ SplitIdle /\ DropIdle /\ RmIdle

NextConv ==
    \/ ConvCheckSuffix \/ ConvMkdir \/ ConvCopyPdf \/ ConvRun
    \/ ConvSpawn \/ ConvExit \/ ConvTimeout \/ ConvCollect \/ ConvExcept

SpecConv == InitConv /\ [][NextConv]_vars

-----------------------------------------------------------------------------
(* rm_files and _is_safe_to_delete *)

\* A pathlib.Path of a POSIX system: its anchor ("/" when absolute, "" when
\* relative) and the components after it.  A str is another type of value.
PathObj(anchor, components) ==
    [type |-> "Path", anchor |-> anchor, components |-> components]
StrObj(text) == [type |-> "str", text |-> text]

\* a == b between two values: a Path never equals a str
PyEq(a, b) ==
    /\ a.type = b.type
    /\ IF a.type = "Path"
       THEN a.anchor = b.anchor /\ a.components = b.components
       ELSE a.text = b.text

\* Path.anchor is a str
AnchorOf(path) == StrObj(path.anchor)

\* Path.parent: the parent of the root is the root
ParentOf(path) ==
    IF path.components = <<>> THEN path
    ELSE PathObj(path.anchor, SubSeq(path.components, 1, Len(path.components) - 1))

RECURSIVE Normalize(_, _)
\* the components of an absolute path with every ".." resolved: ".." of the
\* root is the root
Normalize(done, todo) ==
    IF todo = <<>> THEN done
    ELSE IF Head(todo) = ".."
    THEN Normalize(IF done = <<>> THEN <<>> ELSE SubSeq(done, 1, Len(done) - 1),
                   Tail(todo))
    ELSE Normalize(Append(done, Head(todo)), Tail(todo))

\* line 105: Path(source).resolve(), for an absolute source without symlinks
Resolve(source) == PathObj("/", Normalize(<<>>, source))

\* os.path.expanduser("~")
HomeDir == PathObj("/", <<"home", "user">>)

\* lines 146-151: protected_dirs; Path("C:/") and Path("D:/") are the relative
\* paths C: and D: on a POSIX system
ProtectedDirs ==
    {HomeDir,
     PathObj("/", <<>>), PathObj("", <<"C:">>), PathObj("", <<"D:">>),
     PathObj("/", <<"bin">>), PathObj("/", <<"sbin">>), PathObj("/", <<"usr">>),
     PathObj("/", <<"Windows">>), PathObj("/", <<"Program Files">>)}

\* lines 143-170: _is_safe_to_delete
IsSafeToDelete(one_path) ==
    IF \E protected \in ProtectedDirs : PyEq(one_path, protected) THEN FALSE
    ELSE IF PyEq(one_path, AnchorOf(one_path)) THEN FALSE
    ELSE IF PyEq(ParentOf(one_path), AnchorOf(one_path)) THEN FALSE
    ELSE TRUE

\* lines 1-8: the names the module imports; sys is not one of them
ModuleImports == {"os", "shutil", "uuid", "zipfile"}

\* print(..., file=sys.stderr): evaluating sys raises NameError when the
\* module has not imported it
StderrPrintRaises == "sys" \notin ModuleImports

\* the files of the filesystem; every other path that exists is a directory
Files == {<<"etc", "passwd">>, <<"home", "user", "file.txt">>,
          <<"home", "user", "work", "a.pdf">>}

\* the filesystem before the call
InitialFs ==
    {<<>>, <<"bin">>, <<"usr">>, <<"usr", "lib">>, <<"etc">>, <<"home">>,
     <<"home", "user">>, <<"home", "user", "work">>} \cup Files

\* the paths a caller may pass, each an absolute path as a list of components
Sources ==
    {<<>>, <<"bin">>, <<"usr">>, <<"usr", "lib">>, <<"etc">>, <<"etc", "..">>,
     <<"etc", "passwd">>, <<"home", "user">>, <<"home", "user", "work", "..">>,
     <<"home", "user", "file.txt">>, <<"home", "user", "work">>,
     <<"home", "user", "missing">>}

\* what is left once Path.unlink or shutil.rmtree has removed the path
Without(files, components) ==
    {q \in files : ~(Len(q) >= Len(components)
                     /\ SubSeq(q, 1, Len(components)) = components)}

\* line 102: success = True, and the loop starts
RmStart ==
    /\ fn = "rm_files" /\ pc = "start"
    /\ success' = TRUE
    /\ it' = source_paths
    /\ pc' = "loop"
    /\ UNCHANGED <<fn, outcome, result, pdf, splitv, dropv, convv, source_paths, fs, log>>

\* lines 104-138: the loop body for one path.  A path that fails the safety
\* check, or whose deletion raises, reaches a print to sys.stderr: when that
\* print raises NameError it does so in the try block (line 111), is caught by
\* "except Exception" and raised again by the print of that handler (line
\* 137), or it is raised by the print of the PermissionError or OSError
\* handler (lines 131, 134); either way it leaves rm_files.
RmOne ==
    /\ fn = "rm_files" /\ pc = "loop" /\ it # <<>>
    /\ LET one_path == Resolve(Head(it))
           safe == IsSafeToDelete(one_path)
           Fail(ended) ==
               /\ log' = Append(log, [path |-> one_path, safe |-> safe, ended |-> ended])
               /\ UNCHANGED fs
               /\ IF StderrPrintRaises
                  THEN Raise("NameError") /\ UNCHANGED <<success, it>>
                  ELSE success' = FALSE /\ it' = Tail(it) /\ UNCHANGED <<pc, outcome>>
       IN  IF ~safe THEN Fail("blocked")
           ELSE IF one_path.components \notin fs
           THEN /\ log' = Append(log, [path |-> one_path, safe |-> safe,
                                          ended |-> "missing"])
                /\ it' = Tail(it)
                /\ UNCHANGED <<fs, success, pc, outcome>>
           ELSE \E ended \in {"deleted", "PermissionError", "OSError"} :
                   IF ended = "deleted"
                   THEN /\ fs' = Without(fs, one_path.components)
                        /\ log' = Append(log, [path |-> one_path, safe |-> safe,
                                                  ended |-> ended])
                        /\ it' = Tail(it)
                        /\ UNCHANGED <<success, pc, outcome>>
                   ELSE Fail(ended)
    /\ UNCHANGED <<fn, result, pdf, splitv, dropv, convv, source_paths>>

\* line 140: return success
RmReturn ==
    /\ fn = "rm_files" /\ pc = "loop" /\ it = <<>>
    /\ result' = <<success>>
    /\ outcome' = "returned" /\ pc' = "done"
    /\ UNCHANGED <<fn, it, pdf, splitv, dropv, convv, rmv>>

\* a call of rm_files with up to MaxPaths paths
InitRm ==
    /\ fn = "rm_files" /\ CallStart
    /\ pdf = <<>>
    /\ source_paths \in UNION {[1..len -> Sources] : len \in 0..MaxPaths}
    /\ fs = InitialFs
    /\ success = TRUE /\ log = <<>>
    /\ SplitIdle /\ DropIdle /\ ConvIdle

NextRm == RmStart \/ RmOne \/ RmReturn

SpecRm == InitRm /\ [][NextRm]_vars

-----------------------------------------------------------------------------
(* Properties of the split functions, under SpecSplit *)

Returned == outcome = "returned"
Raised == outcome \notin {"running", "returned"}

\* the page count of each output document
Lengths(docs) == [k \in 1..Len(docs) |-> Len(docs[k])]

\* ranges that are non-empty, start at 0, each start where the one before
\* stops, and stop at n: they are disjoint, ascending and cover [0, n) exactly
CoversInOrder(rl, n) ==
    IF rl = <<>> THEN n = 0
    ELSE /\ rl[1].start = 0
         /\ rl[Len(rl)].stop = n
         /\ \A k \in 1..Len(rl) : rl[k].start < rl[k].stop
         /\ \A k \in 1..(Len(rl) - 1) : rl[k].stop = rl[k + 1].start

C6_OnePagePerOutput ==
    (fn = "pdf_split_by_part" /\ parts >= 1 /\ Len(pdf) < parts /\ pc = "done") =>
        /\ Returned
        /\ Len(result) = Len(pdf)
        /\ \A k \in 1..Len(result) : result[k] = <<pdf[k]>>

C6_Witness ==
    /\ fn = "pdf_split_by_part" /\ Returned
    /\ Len(pdf) = 2 /\ parts = 5 /\ mode = "front"
    /\ result = << <<0>>, <<1>> >>

\* C2: for N >= parts >= 1 and both modes, pdf_split_by_part returns exactly
\* `parts` outputs that hold every source page once and in order: merged in
\* order they are the source document.
C2_PartOutputsCover ==
    (fn = "pdf_split_by_part" /\ parts >= 1 /\ Len(pdf) >= parts /\ pc = "done") =>
        /\ Returned
        /\ Len(result) = parts
        /\ Merge(result) = pdf

\* C3: for N >= parts >= 1, every output of pdf_split_by_part has avg = N div
\* parts pages and exactly rem = N mod parts outputs have one more: the first
\* rem in mode 'back', the last rem in mode 'front'.
C3_PartLengths ==
    (fn = "pdf_split_by_part" /\ parts >= 1 /\ Len(pdf) >= parts /\ Returned) =>
        LET avg == Len(pdf) \div parts
            rem == Len(pdf) % parts
        IN  Lengths(result) =
              [k \in 1..parts |->
                 IF mode = "back"
                 THEN (IF k <= rem THEN avg + 1 ELSE avg)
                 ELSE (IF k > parts - rem THEN avg + 1 ELSE avg)]

\* C7: a call of pdf_split_by_page with pages <= 0, or of pdf_split_by_part
\* with parts <= 0, ends with an error and never returns a list.
C7_NonPositiveDivisorRaises ==
    (pc = "done" /\ (\/ fn = "pdf_split_by_page" /\ pages <= 0
                     \/ fn = "pdf_split_by_part" /\ parts <= 0)) =>
        Raised

-----------------------------------------------------------------------------
(* Properties of pdf_drop_pages, under SpecDrop *)

\* position p lies in one of the requested ranges
Covered(p) ==
    \E k \in 1..Len(drop_pages) : drop_pages[k][1] <= p /\ p <= drop_pages[k][2]

\* C5: pdf_drop_pages returns exactly the pages whose 1-based position lies in
\* no (begin, end) range, in their original order and each once; nothing is
\* returned twice or lost where ranges overlap, and the output is empty when
\* every page is covered.
C5_DropKeepsUncovered ==
    (fn = "pdf_drop_pages" /\ pc = "done") =>
        /\ Returned
        /\ {result[k] : k \in 1..Len(result)} =
              {pdf[p] : p \in {q \in 1..Len(pdf) : ~Covered(q)}}
        /\ \A j, k \in 1..Len(result) : j < k => result[j] < result[k]
        /\ ((\A p \in 1..Len(pdf) : Covered(p)) => result = <<>>)

C5_Witness ==
    /\ fn = "pdf_drop_pages" /\ Returned
    /\ Len(pdf) = 5 /\ drop_pages = << <<2, 3>>, <<3, 4>> >>
    /\ result = <<0, 4>>

-----------------------------------------------------------------------------
(* Properties of the conversion, under SpecConv *)

\* C8: whenever convert_to_pdf or convert_to_pdf_async returns or raises
\* after having created out_dir/<uuid>, that directory has been removed.
C8_TempDirRemoved ==
    (fn \in Converters /\ pc = "done") => tmp_dir # "exists"

-----------------------------------------------------------------------------
(* Properties of the deletion, under SpecRm *)

\* the directories the deletion must never touch: the home directory, the
\* root, the listed system directories and every direct child of the root
Protected(path) ==
    \/ path \in ProtectedDirs
    \/ path.anchor = "/" /\ Len(path.components) <= 1

\* C9: rm_files never deletes a path that resolves to a protected directory:
\* _is_safe_to_delete answers False for it and it still exists afterwards.
C9_ProtectedNeverDeleted ==
    fn = "rm_files" =>
        /\ \A k \in 1..Len(log) : Protected(log[k].path) => ~log[k].safe
        /\ \A q \in InitialFs : Protected(PathObj("/", q)) => q \in fs

\* C10: rm_files visits every path in list order whatever happened to the
\* earlier ones, never raises, and returns True exactly when no path failed
\* (a path that does not exist is no failure).
C10_BestEffortBatch ==
    (fn = "rm_files" /\ pc = "done") =>
        /\ Returned
        /\ Len(log) = Len(source_paths)
        /\ \A k \in 1..Len(log) : log[k].path = Resolve(source_paths[k])
        /\ result = << \A k \in 1..Len(log) : log[k].ended \in {"missing", "deleted"} >>

====
